---- MODULE Spec2Model ----
(***************************************************************************)
(* Model of the agent task dispatcher (apps/agent/tasks.py, worker.py,     *)
(* simple_agent.py, enhanced_agents.py, agent_config.py), of the chunked   *)
(* upload session (apps/api/storage_service.py), of teams and invitations  *)
(* (apps/api/team_service.py), of the Stripe webhook                       *)
(* (apps/api/stripe_service.py) and of the workflow graph                  *)
(* (apps/agent/langgraph_workflows.py).                                    *)
(*                                                                         *)
(* A Python string is a sequence of text fragments: an f-string is the     *)
(* concatenation of its literal part and of the formatted values.          *)
(***************************************************************************)
EXTENDS Integers, Sequences, FiniteSets, TLC

VARIABLES
    \* ---- the worker and the dispatcher, one copy per run
    pc,             \* position of each run of process_agent_task
    default_system, \* AGENT_SYSTEM_CONFIG['default_system'] of the run's process
    task_exists,    \* the Task row of task_id is in the database
    agent_exists,   \* the Agent row of task.agent_id is in the database
    task_status,    \* Task.status in the database
    task_result,    \* Task.result in the database
    result,         \* what process_task returned to the worker
    calls,          \* the pipelines process_task invoked, in order
    writes,         \* every attempted status write of the run, with its outcome
    worker_return,  \* the "status" of the dict process_agent_task returned
    \* ---- the environment of the pipelines, the same for every run
    enhanced_env,   \* how far the Enhanced pipeline gets
    simple_env,     \* how far the Simple pipeline gets before the provider call
    provider,       \* what the chat-completion provider answers
    \* ---- the upload session (apps/api/storage_service.py)
    upload_session, \* the FileUploadSession row
    bucket,         \* the blobs uploads/<session id>/chunk_<n> of the bucket
    final_objects,  \* the contents upload_file stored in the bucket, in order
    file_records,   \* the File rows upload_file created, in order
    req,            \* each upload_chunk request: its arguments and position
    reply,       \* what each request's last upload_chunk call answered
    finalize_count, \* how often _finalize_upload was entered
    \* ---- teams and roles (apps/api/team_service.py)
    roles,          \* the Role rows, by name
    teams,          \* the ids of the Team rows
    memberships,    \* the TeamMembership rows, in insertion order
    perm_result,    \* the last has_permission call and what it returned
    \* ---- team invitations (apps/api/team_service.py)
    invitations,    \* the TeamInvitation rows, in insertion order
    accepting,      \* each accept_invitation request: its position and arguments
    \* ---- the agent configuration of a worker process (apps/agent/agent_config.py)
    AGENT_SYSTEM_CONFIG, \* the module-level dict of agent_config.py
    openai_client,  \* the defaults of the shared OpenAIClient
    provider_requests, \* the parameters of every chat-completion request sent
    simple_result,  \* what the last process_task_simple call returned
    \* ---- Stripe webhooks (apps/api/stripe_service.py)
    webhook_events, \* the WebhookEvent rows, by stripe_event_id
    subscriptions,  \* the Subscription rows, by stripe_subscription_id
    payments,       \* the Payment rows, in insertion order
    delivery,       \* each handle_webhook call: its event, position and return value
    handler_runs,   \* how often the handler of each event id was entered
    \* ---- the workflow graph (apps/agent/langgraph_workflows.py)
    state,          \* the WorkflowState handed from node to node
    node,           \* the node the graph runs next
    recovery_option,\* the option the error handler last chose
    visited         \* the nodes the run has visited, in order

workerVars == <<pc, default_system, task_exists, agent_exists, task_status,
                task_result, result, calls, writes, worker_return,
                enhanced_env, simple_env, provider>>

uploadVars == <<upload_session, bucket, final_objects, file_records,
                req, reply, finalize_count>>

teamVars == <<roles, teams, memberships, perm_result>>

inviteVars == <<invitations, accepting>>

configVars == <<AGENT_SYSTEM_CONFIG, openai_client, provider_requests,
                simple_result>>

stripeVars == <<webhook_events, subscriptions, payments, delivery,
                handler_runs>>

workflowVars == <<state, node, recovery_option, visited>>

vars == <<workerVars, uploadVars, teamVars, inviteVars, configVars,
          stripeVars, workflowVars>>

\* What the actions of one part of the program leave alone
notWorker == <<uploadVars, teamVars, inviteVars, configVars, stripeVars,
               workflowVars>>

notUpload == <<workerVars, teamVars, inviteVars, configVars, stripeVars,
               workflowVars>>

notTeam == <<workerVars, uploadVars, inviteVars, configVars, stripeVars,
             workflowVars>>

notInvite == <<workerVars, uploadVars, configVars, stripeVars, workflowVars>>

notConfig == <<workerVars, uploadVars, teamVars, inviteVars, stripeVars,
               workflowVars>>

notStripe == <<workerVars, uploadVars, teamVars, inviteVars, configVars,
               workflowVars>>

notWorkflow == <<workerVars, uploadVars, teamVars, inviteVars, configVars,
                 stripeVars>>

-----------------------------------------------------------------------------
(* Python values *)

Str(t) == [kind |-> "str", cls |-> "", text |-> t]

Dict(t) == [kind |-> "dict", cls |-> "", text |-> t]

Raise(c, t) == [kind |-> "raise", cls |-> c, text |-> t]

None == [kind |-> "none", cls |-> "", text |-> <<>>]

\* s.startswith(p)
StartsWith(s, p) == Len(s) >= Len(p) /\ SubSeq(s, 1, Len(p)) = p

ErrorPrefix == <<"Error processing task: ">>

-----------------------------------------------------------------------------
(* The two worker runs compared by the fallback claims: the same task, the  *)
(* same agent, the same provider behaviour, each in its own process.        *)

Runs == {"A", "B"}

EnhancedEnvs == {"ImportError", "Exception", "chain_error", "ok"}

SimpleEnvs == {"ImportError", "ImportException", "ConfigException", "ok"}

ProviderOutcomes == {"ok", "rate_limit", "invalid_request", "auth_error", "api_error"}

DbOutcomes == {"ok", "db_error", "no_connection"}

-----------------------------------------------------------------------------
(* libs/shared/openai_config.py *)

\* OpenAIClient.create_chat_completion: the reply dict, or an OpenAIError
\* whose message depends on the kind of provider error.
create_chat_completion(p) ==
    CASE p = "ok" -> Dict(<<"answer">>)
      [] p = "rate_limit" ->
            Raise("OpenAIError", <<"Rate limit exceeded. Please try again later.">>)
      [] p = "invalid_request" ->
            Raise("OpenAIError", <<"Invalid request parameters.">>)
      [] p = "auth_error" ->
            Raise("OpenAIError", <<"Authentication failed. Please check your API key.">>)
      [] p = "api_error" ->
            Raise("OpenAIError", <<"OpenAI API error: ", "provider failure">>)

-----------------------------------------------------------------------------
(* apps/agent/simple_agent.py *)

\* A plausible slip: the response dict is returned instead of its content.
SimpleAgent_process_task_returns_response(p) ==
    LET response == create_chat_completion(p) IN
    CASE response.kind = "dict" -> response
      [] response.kind = "raise" /\ response.cls = "OpenAIError" ->
            Str(<<"OpenAI error: ">> \o response.text)
      [] OTHER -> Str(ErrorPrefix \o response.text)

\* A plausible slip: the OpenAIError is raised again after it is logged.
SimpleAgent_process_task_reraises(p) ==
    LET response == create_chat_completion(p) IN
    CASE response.kind = "dict" -> Str(response.text)
      [] response.kind = "raise" /\ response.cls = "OpenAIError" -> response
      [] OTHER -> Str(ErrorPrefix \o response.text)

\* SimpleAgent.process_task
SimpleAgent_process_task(p) ==
    LET response == create_chat_completion(p) IN
    CASE response.kind = "dict" -> Str(response.text)
      [] response.kind = "raise" /\ response.cls = "OpenAIError" ->
            Str(<<"OpenAI error: ">> \o response.text)
      [] OTHER -> Str(ErrorPrefix \o response.text)

\* process_task_simple: building the configuration may raise; everything is
\* caught and turned into an error string.
process_task_simple(se, p) ==
    LET r == IF se = "ConfigException"
             THEN Raise("Exception", <<"config unavailable">>)
             ELSE SimpleAgent_process_task(p) IN
    IF r.kind = "raise" THEN Str(ErrorPrefix \o r.text) ELSE r

-----------------------------------------------------------------------------
(* apps/agent/tasks.py *)

\* _process_with_simple_agent: the import of simple_agent may fail.
_process_with_simple_agent(se, p) ==
    LET r == CASE se = "ImportError" -> Raise("ImportError", <<"No module named simple_agent">>)
               [] se = "ImportException" -> Raise("Exception", <<"import failed">>)
               [] OTHER -> process_task_simple(se, p) IN
    CASE r.kind = "raise" /\ r.cls = "ImportError" ->
            Str(<<"Error: No agent system available">>)
      [] r.kind = "raise" -> Str(ErrorPrefix \o r.text)
      [] OTHER -> r

\* The try body of _process_with_enhanced_agent: the imports, the
\* configuration, the construction of the agent and EnhancedAgent.process_task,
\* which catches the errors of its chain itself.
enhanced_agent_body(ee) ==
    CASE ee = "ImportError" -> Raise("ImportError", <<"No module named langchain">>)
      [] ee = "Exception" -> Raise("Exception", <<"agent construction failed">>)
      [] ee = "chain_error" -> Str(ErrorPrefix \o <<"chain failed">>)
      [] OTHER -> Str(<<"enhanced answer">>)

\* The except clause of process_task.
process_task_except(r) ==
    IF r.kind = "raise" THEN Str(ErrorPrefix \o r.text) ELSE r

\* should_use_enhanced_agent (agent_config.py)
should_use_enhanced_agent(r) == default_system[r] = "enhanced"

\* update_task_status(task_id, status): the write is lost when the query or
\* the commit raises (logged and swallowed); when get_db itself raises, db is
\* unbound in the finally clause and the call raises.
update_task_status(r, status, outcome) ==
    /\ task_status' = IF outcome = "ok"
                      THEN [task_status EXCEPT ![r] = status]
                      ELSE task_status
    /\ writes' = [writes EXCEPT ![r] = Append(@, <<status, outcome>>)]

-----------------------------------------------------------------------------
(* apps/agent/worker.py: process_agent_task *)

\* Lines 43-54: the task and its agent are looked up.
LoadTask(r) ==
    /\ pc[r] = "queued"
    /\ IF ~task_exists
       THEN /\ pc' = [pc EXCEPT ![r] = "done"]
            /\ worker_return' = [worker_return EXCEPT ![r] = "error: Task not found"]
       ELSE IF ~agent_exists
       THEN /\ pc' = [pc EXCEPT ![r] = "done"]
            /\ worker_return' = [worker_return EXCEPT ![r] = "error: Agent not found"]
       ELSE /\ pc' = [pc EXCEPT ![r] = "mark_processing"]
            /\ UNCHANGED worker_return
    /\ UNCHANGED <<default_system, task_exists, agent_exists, task_status,
                   task_result, result, calls, writes, enhanced_env,
                   simple_env, provider>>
    /\ UNCHANGED notWorker

\* Line 57: update_task_status(task_id, "processing")
MarkProcessing(r) ==
    /\ pc[r] = "mark_processing"
    /\ \E o \in DbOutcomes :
          /\ update_task_status(r, "processing", o)
          /\ pc' = [pc EXCEPT ![r] = IF o = "no_connection" THEN "except"
                                     ELSE "process_task"]
    /\ UNCHANGED <<default_system, task_exists, agent_exists, task_result,
                   result, calls, worker_return, enhanced_env, simple_env,
                   provider>>
    /\ UNCHANGED notWorker

\* Lines 60-62 and tasks.py 18-24: the routing flag is read and process_task
\* routes on it.
ProcessTask(r) ==
    /\ pc[r] = "process_task"
    /\ pc' = [pc EXCEPT ![r] = IF should_use_enhanced_agent(r) THEN "enhanced"
                               ELSE "simple"]
    /\ UNCHANGED <<default_system, task_exists, agent_exists, task_status,
                   task_result, result, calls, writes, worker_return,
                   enhanced_env, simple_env, provider>>
    /\ UNCHANGED notWorker

\* A plausible slip: an exception of the Enhanced pipeline is turned into an
\* error string instead of falling back.
ProcessWithEnhancedAgent_no_fallback_on_exception(r) ==
    /\ pc[r] = "enhanced"
    /\ calls' = [calls EXCEPT ![r] = Append(@, "enhanced")]
    /\ LET o == enhanced_agent_body(enhanced_env) IN
       IF o.kind = "raise" /\ o.cls = "ImportError"
       THEN /\ pc' = [pc EXCEPT ![r] = "simple"]
            /\ UNCHANGED result
       ELSE /\ pc' = [pc EXCEPT ![r] = "returned"]
            /\ result' = [result EXCEPT ![r] = process_task_except(o)]
    /\ UNCHANGED <<default_system, task_exists, agent_exists, task_status,
                   task_result, writes, worker_return, enhanced_env,
                   simple_env, provider>>
    /\ UNCHANGED notWorker

\* A plausible slip: the ImportError handler reports that no agent system is
\* available instead of falling back.
ProcessWithEnhancedAgent_unavailable_is_error(r) ==
    /\ pc[r] = "enhanced"
    /\ calls' = [calls EXCEPT ![r] = Append(@, "enhanced")]
    /\ LET o == enhanced_agent_body(enhanced_env) IN
       IF o.kind = "raise" /\ o.cls = "ImportError"
       THEN /\ pc' = [pc EXCEPT ![r] = "returned"]
            /\ result' = [result EXCEPT ![r] = Str(<<"Error: No agent system available">>)]
       ELSE IF o.kind = "raise"
       THEN /\ pc' = [pc EXCEPT ![r] = "simple"]
            /\ UNCHANGED result
       ELSE /\ pc' = [pc EXCEPT ![r] = "returned"]
            /\ result' = [result EXCEPT ![r] = process_task_except(o)]
    /\ UNCHANGED <<default_system, task_exists, agent_exists, task_status,
                   task_result, writes, worker_return, enhanced_env,
                   simple_env, provider>>
    /\ UNCHANGED notWorker

\* tasks.py 30-63: _process_with_enhanced_agent. Both except clauses hand the
\* task to _process_with_simple_agent.
ProcessWithEnhancedAgent(r) ==
    /\ pc[r] = "enhanced"
    /\ calls' = [calls EXCEPT ![r] = Append(@, "enhanced")]
    /\ LET o == enhanced_agent_body(enhanced_env) IN
       IF o.kind = "raise"
       THEN /\ pc' = [pc EXCEPT ![r] = "simple"]
            /\ UNCHANGED result
       ELSE /\ pc' = [pc EXCEPT ![r] = "returned"]
            /\ result' = [result EXCEPT ![r] = process_task_except(o)]
    /\ UNCHANGED <<default_system, task_exists, agent_exists, task_status,
                   task_result, writes, worker_return, enhanced_env,
                   simple_env, provider>>
    /\ UNCHANGED notWorker

\* tasks.py 65-76: _process_with_simple_agent, called by process_task or by
\* an except clause of _process_with_enhanced_agent.
ProcessWithSimpleAgent(r) ==
    /\ pc[r] = "simple"
    /\ calls' = [calls EXCEPT ![r] = Append(@, "simple")]
    /\ result' = [result EXCEPT ![r] =
                     process_task_except(_process_with_simple_agent(simple_env, provider))]
    /\ pc' = [pc EXCEPT ![r] = "returned"]
    /\ UNCHANGED <<default_system, task_exists, agent_exists, task_status,
                   task_result, writes, worker_return, enhanced_env,
                   simple_env, provider>>
    /\ UNCHANGED notWorker

\* A plausible slip: an error raised after the commit reaches the except
\* clause, which marks the completed task failed.
CompleteTask_then_except(r) ==
    /\ pc[r] = "returned"
    /\ \E committed \in BOOLEAN :
          IF committed
          THEN /\ task_status' = [task_status EXCEPT ![r] = "completed"]
               /\ task_result' = [task_result EXCEPT ![r] = result[r]]
               /\ writes' = [writes EXCEPT ![r] = Append(@, <<"completed", "ok">>)]
               /\ pc' = [pc EXCEPT ![r] = "except"]
               /\ UNCHANGED worker_return
          ELSE /\ writes' = [writes EXCEPT ![r] = Append(@, <<"completed", "db_error">>)]
               /\ pc' = [pc EXCEPT ![r] = "except"]
               /\ UNCHANGED <<task_status, task_result, worker_return>>
    /\ UNCHANGED <<default_system, task_exists, agent_exists, result, calls,
                   enhanced_env, simple_env, provider>>
    /\ UNCHANGED notWorker

\* Lines 64-70: whatever string process_task returned is stored as the result
\* with status completed; a failing commit raises into the except clause.
CompleteTask(r) ==
    /\ pc[r] = "returned"
    /\ \E committed \in BOOLEAN :
          IF committed
          THEN /\ task_status' = [task_status EXCEPT ![r] = "completed"]
               /\ task_result' = [task_result EXCEPT ![r] = result[r]]
               /\ writes' = [writes EXCEPT ![r] = Append(@, <<"completed", "ok">>)]
               /\ pc' = [pc EXCEPT ![r] = "done"]
               /\ worker_return' = [worker_return EXCEPT ![r] = "completed"]
          ELSE /\ writes' = [writes EXCEPT ![r] = Append(@, <<"completed", "db_error">>)]
               /\ pc' = [pc EXCEPT ![r] = "except"]
               /\ UNCHANGED <<task_status, task_result, worker_return>>
    /\ UNCHANGED <<default_system, task_exists, agent_exists, result, calls,
                   enhanced_env, simple_env, provider>>
    /\ UNCHANGED notWorker

\* Lines 72-81: the except clause; a failure of its own status update is
\* swallowed.
HandleException(r) ==
    /\ pc[r] = "except"
    /\ \E o \in DbOutcomes : update_task_status(r, "failed", o)
    /\ pc' = [pc EXCEPT ![r] = "done"]
    /\ worker_return' = [worker_return EXCEPT ![r] = "error"]
    /\ UNCHANGED <<default_system, task_exists, agent_exists, task_result,
                   result, calls, enhanced_env, simple_env, provider>>
    /\ UNCHANGED notWorker

-----------------------------------------------------------------------------
(* apps/api/storage_service.py: the chunked upload session.  The object     *)
(* store and the database are the collaborators of the service: a call to   *)
(* either succeeds or raises.                                                *)

\* Sessions are created for files of 1..MaxFileSize bytes.
MaxFileSize == 3

ChunkSizes == {1, 2}

\* The chunk numbers a client may send: MaxFileSize is out of range for
\* every session.
ChunkNumbers == 0..MaxFileSize

Data == {"a", "b"}

NoBlob == "none"

\* secrets.token_urlsafe(32) of the session, and another token
SessionToken == "token"

Tokens == {SessionToken, "other"}

\* The concurrent upload_chunk requests; the sequential specification serves
\* its calls one after the other in request 1.
Requests == {1, 2}

NoSession ==
    [exists |-> FALSE, file_size |-> 0, chunk_size |-> 0, total_chunks |-> 0,
     uploaded_chunks |-> <<>>, status |-> "none", expired |-> FALSE]

\* No chunk number: the value of chunk_number where a reply carries none
NoChunk == 0 - 1

\* A request that is not inside upload_chunk
IdleRequest ==
    [pc |-> "idle", chunk_number |-> NoChunk, chunk_data |-> NoBlob,
     uploaded_chunks |-> <<>>]

\* What upload_chunk answers: the "status" and "chunk_number" of the dict it
\* returns, or the exception it raises ("ValueError", "error").
Reply(status, n) == [status |-> status, chunk_number |-> n]

\* The elements of a Python list
Elements(list) == {list[i] : i \in 1..Len(list)}

\* range(upload_session.total_chunks)
ChunkRange == 0..(upload_session.total_chunks - 1)

\* A plausible slip: one more than the floor of the quotient.
total_chunks_floor_plus_one(file_size, chunk_size) ==
    file_size \div chunk_size + 1

\* create_upload_session, line 336: // is floor division; Python integers do
\* not overflow.
total_chunks(file_size, chunk_size) ==
    (file_size + chunk_size - 1) \div chunk_size

\* create_upload_session
CreateUploadSession(file_size, chunk_size) ==
    /\ ~upload_session.exists
    /\ upload_session' =
          [exists |-> TRUE, file_size |-> file_size, chunk_size |-> chunk_size,
           total_chunks |-> total_chunks(file_size, chunk_size),
           uploaded_chunks |-> <<>>, status |-> "pending", expired |-> FALSE]
    /\ UNCHANGED <<bucket, final_objects, file_records, req, reply, finalize_count>>
    /\ UNCHANGED notUpload

\* The clock passes expires_at of the session (24 hours after its creation):
\* expired stands for datetime.utcnow() > upload_session.expires_at.
Expire ==
    /\ upload_session.exists
    /\ ~upload_session.expired
    /\ upload_session' = [upload_session EXCEPT !.expired = TRUE]
    /\ UNCHANGED <<bucket, final_objects, file_records, req, reply, finalize_count>>
    /\ UNCHANGED notUpload

\* A plausible slip: the query does not filter on the session token.
UploadChunkBegin_any_token(r, token, n, d) ==
    /\ req[r].pc = "idle"
    /\ LET found == /\ upload_session.exists
                    /\ upload_session.status \in {"pending", "uploading"} IN
       IF ~found
       THEN /\ reply' = [reply EXCEPT ![r] = Reply("ValueError", NoChunk)]
            /\ UNCHANGED req
       ELSE IF n \in Elements(upload_session.uploaded_chunks)
       THEN /\ reply' = [reply EXCEPT ![r] = Reply("already_uploaded", n)]
            /\ UNCHANGED req
       ELSE /\ req' = [req EXCEPT ![r] =
                         [pc |-> "store", chunk_number |-> n, chunk_data |-> d,
                          uploaded_chunks |-> upload_session.uploaded_chunks]]
            /\ reply' = [reply EXCEPT ![r] = Reply("none", NoChunk)]
    /\ UNCHANGED <<upload_session, bucket, final_objects, file_records,
                   finalize_count>>
    /\ UNCHANGED notUpload

\* A plausible slip: the query does not filter on the status of the session.
UploadChunkBegin_any_status(r, token, n, d) ==
    /\ req[r].pc = "idle"
    /\ LET found == upload_session.exists /\ token = SessionToken IN
       IF ~found
       THEN /\ reply' = [reply EXCEPT ![r] = Reply("ValueError", NoChunk)]
            /\ UNCHANGED req
       ELSE IF n \in Elements(upload_session.uploaded_chunks)
       THEN /\ reply' = [reply EXCEPT ![r] = Reply("already_uploaded", n)]
            /\ UNCHANGED req
       ELSE /\ req' = [req EXCEPT ![r] =
                         [pc |-> "store", chunk_number |-> n, chunk_data |-> d,
                          uploaded_chunks |-> upload_session.uploaded_chunks]]
            /\ reply' = [reply EXCEPT ![r] = Reply("none", NoChunk)]
    /\ UNCHANGED <<upload_session, bucket, final_objects, file_records,
                   finalize_count>>
    /\ UNCHANGED notUpload

\* A plausible slip: the chunk is stored again without looking at
\* uploaded_chunks.
UploadChunkBegin_no_duplicate_check(r, token, n, d) ==
    /\ req[r].pc = "idle"
    /\ LET found == /\ upload_session.exists
                    /\ token = SessionToken
                    /\ upload_session.status \in {"pending", "uploading"} IN
       IF ~found
       THEN /\ reply' = [reply EXCEPT ![r] = Reply("ValueError", NoChunk)]
            /\ UNCHANGED req
       ELSE /\ req' = [req EXCEPT ![r] =
                         [pc |-> "store", chunk_number |-> n, chunk_data |-> d,
                          uploaded_chunks |-> upload_session.uploaded_chunks]]
            /\ reply' = [reply EXCEPT ![r] = Reply("none", NoChunk)]
    /\ UNCHANGED <<upload_session, bucket, final_objects, file_records,
                   finalize_count>>
    /\ UNCHANGED notUpload

\* upload_chunk, lines 374-385: the session is looked up by its token among the
\* pending and uploading sessions, and a chunk number already in
\* uploaded_chunks is answered already_uploaded.  Neither expires_at nor the
\* range of chunk_number is looked at.
UploadChunkBegin(r, token, n, d) ==
    /\ req[r].pc = "idle"
    /\ LET found == /\ upload_session.exists
                    /\ token = SessionToken
                    /\ upload_session.status \in {"pending", "uploading"} IN
       IF ~found
       THEN /\ reply' = [reply EXCEPT ![r] = Reply("ValueError", NoChunk)]
            /\ UNCHANGED req
       ELSE IF n \in Elements(upload_session.uploaded_chunks)
       THEN /\ reply' = [reply EXCEPT ![r] = Reply("already_uploaded", n)]
            /\ UNCHANGED req
       ELSE /\ req' = [req EXCEPT ![r] =
                         [pc |-> "store", chunk_number |-> n, chunk_data |-> d,
                          uploaded_chunks |-> upload_session.uploaded_chunks]]
            /\ reply' = [reply EXCEPT ![r] = Reply("none", NoChunk)]
    /\ UNCHANGED <<upload_session, bucket, final_objects, file_records,
                   finalize_count>>
    /\ UNCHANGED notUpload

\* upload_chunk, lines 387-390: the chunk is written to the bucket; a failing
\* write raises out of upload_chunk.
StoreChunk(r) ==
    /\ req[r].pc = "store"
    /\ \E stored \in BOOLEAN :
          IF stored
          THEN /\ bucket' = [bucket EXCEPT ![req[r].chunk_number] = req[r].chunk_data]
               /\ req' = [req EXCEPT ![r].pc = "commit"]
               /\ UNCHANGED reply
          ELSE /\ req' = [req EXCEPT ![r] = IdleRequest]
               /\ reply' = [reply EXCEPT ![r] = Reply("error", NoChunk)]
               /\ UNCHANGED bucket
    /\ UNCHANGED <<upload_session, final_objects, file_records, finalize_count>>
    /\ UNCHANGED notUpload

\* upload_chunk, lines 392-408: the chunk number is appended, the session set
\* to uploading and committed; finalization starts when the list has
\* total_chunks entries.
CommitChunk(r) ==
    /\ req[r].pc = "commit"
    /\ LET uploaded_chunks == Append(req[r].uploaded_chunks, req[r].chunk_number) IN
       \E committed \in BOOLEAN :
          IF ~committed
          THEN /\ req' = [req EXCEPT ![r] = IdleRequest]
               /\ reply' = [reply EXCEPT ![r] = Reply("error", NoChunk)]
               /\ UNCHANGED upload_session
          ELSE /\ upload_session' = [upload_session EXCEPT
                                        !.uploaded_chunks = uploaded_chunks,
                                        !.status = "uploading"]
               /\ IF Len(uploaded_chunks) = upload_session.total_chunks
                  THEN /\ req' = [req EXCEPT ![r].pc = "finalize",
                                             ![r].uploaded_chunks = uploaded_chunks]
                       /\ UNCHANGED reply
                  ELSE /\ req' = [req EXCEPT ![r] = IdleRequest]
                       /\ reply' = [reply EXCEPT
                                       ![r] = Reply("chunk_uploaded", req[r].chunk_number)]
    /\ UNCHANGED <<bucket, final_objects, file_records, finalize_count>>
    /\ UNCHANGED notUpload

\* The chunks 0..total_chunks-1 of the bucket, concatenated in index order
CombinedData ==
    [i \in 1..upload_session.total_chunks |-> bucket[i - 1]]

FinalizeOutcomes ==
    {"ok", "read_fail", "store_fail", "record_fail", "delete_fail", "commit_fail"}

\* _finalize_upload: the chunks are read in index order and combined,
\* upload_file stores the file and creates its record, the chunks are deleted
\* and the session is marked completed; any exception marks it failed and is
\* raised again.
FinalizeUpload(r) ==
    /\ req[r].pc = "finalize"
    /\ finalize_count' = finalize_count + 1
    /\ req' = [req EXCEPT ![r] = IdleRequest]
    /\ \E outcome \in FinalizeOutcomes, failing \in ChunkRange :
          LET missing == \E i \in ChunkRange : bucket[i] = NoBlob
              read == ~missing /\ outcome # "read_fail"
              stored == read /\ outcome # "store_fail"
              recorded == stored /\ outcome # "record_fail"
              deleted == IF ~recorded THEN {}
                         ELSE IF outcome = "delete_fail"
                         THEN {i \in ChunkRange : i < failing}
                         ELSE ChunkRange
              completed == recorded /\ outcome = "ok" IN
          /\ final_objects' = IF stored THEN Append(final_objects, CombinedData)
                              ELSE final_objects
          /\ file_records' = IF recorded THEN Append(file_records, CombinedData)
                             ELSE file_records
          /\ bucket' = [n \in ChunkNumbers |->
                           IF n \in deleted THEN NoBlob ELSE bucket[n]]
          /\ upload_session' = [upload_session EXCEPT
                                   !.status = IF completed THEN "completed"
                                              ELSE "failed"]
          /\ reply' = [reply EXCEPT
                          ![r] = IF completed THEN Reply("completed", NoChunk)
                                 ELSE Reply("error", NoChunk)]
    /\ UNCHANGED notUpload

-----------------------------------------------------------------------------
(* Teams, roles and permissions (apps/api/team_service.py).  A Role row is   *)
(* known by its unique name; its permissions list is kept as the set of its  *)
(* elements, which is all that "in" looks at.                                *)

SystemRoleNames == {"owner", "admin", "member", "viewer"}

\* TeamService.SYSTEM_ROLES[name]["permissions"]
SYSTEM_ROLES ==
    [name \in SystemRoleNames |->
        CASE name = "owner" -> {"*"}
          [] name = "admin" ->
               {"agents:create", "agents:read", "agents:update", "agents:delete",
                "tasks:create", "tasks:read", "tasks:update", "tasks:delete",
                "team:read", "team:update", "team:invite", "team:manage_members",
                "billing:read", "billing:update"}
          [] name = "member" ->
               {"agents:create", "agents:read", "agents:update",
                "tasks:create", "tasks:read", "tasks:update",
                "team:read"}
          [] name = "viewer" -> {"agents:read", "tasks:read", "team:read"}]

\* The role names of the calls: the system roles and one unrecognized name
RoleNames == SystemRoleNames \cup {"guest"}

Users == {"u1", "u2"}

\* The ids create_team gives its teams
Teams == {"t1"}

\* The team ids of the calls: of those teams, and of no team
TeamIds == Teams \cup {"t2"}

\* The permission strings has_permission is asked for: one in every
\* non-wildcard system role, one in admin and member only, one in admin only,
\* one in no system role, a prefix of a permission, and the wildcard itself.
Permissions ==
    {"agents:read", "agents:create", "team:manage_members", "files:read",
     "agents", "*"}

NoRole == [exists |-> FALSE, permissions |-> {}]

\* The permissions of a Role row that is in the database before any call:
\* the system ones as create_default_roles writes them, except a member role
\* an operator has edited, and a custom guest role.
StoredPermissions(name) ==
    CASE name = "member" -> {"agents:read", "files:read"}
      [] name = "guest" -> {"files:read"}
      [] OTHER -> SYSTEM_ROLES[name]

\* No TeamMembership row
NoRow == 0

NoCheck ==
    [user |-> "none", team |-> "none", permission |-> "none", lookup |-> "none",
     value |-> "none"]

\* The rows the query of has_permission, update_member_role and
\* remove_member filters: the active memberships of the user in the team
ActiveRows(user_id, team_id) ==
    {i \in 1..Len(memberships) :
        /\ memberships[i].user = user_id
        /\ memberships[i].team = team_id
        /\ memberships[i].is_active}

\* .first() of that query: a row of the result, which is not ordered, or None
First(user_id, team_id) ==
    IF ActiveRows(user_id, team_id) = {} THEN {NoRow}
    ELSE ActiveRows(user_id, team_id)

\* A plausible slip: the exception of a failing lookup is raised again.
has_permission_raises(membership, permission, outcome) ==
    IF outcome # "ok" THEN "raise"
    ELSE IF membership = NoRow THEN "False"
    ELSE IF "*" \in roles[memberships[membership].role].permissions THEN "True"
    ELSE IF permission \in roles[memberships[membership].role].permissions
    THEN "True" ELSE "False"

\* A plausible slip: a permission is matched by its resource prefix.
has_permission_prefix_match(membership, permission, outcome) ==
    IF outcome # "ok" THEN "False"
    ELSE IF membership = NoRow THEN "False"
    ELSE IF "*" \in roles[memberships[membership].role].permissions THEN "True"
    ELSE IF \/ permission \in roles[memberships[membership].role].permissions
            \/ /\ permission = "agents"
               /\ roles[memberships[membership].role].permissions
                     \cap {"agents:create", "agents:read", "agents:update",
                           "agents:delete"} # {}
    THEN "True" ELSE "False"

\* has_permission, given the row its query returned and whether the database
\* answered: "True" and "False" are the Python values it returns.
has_permission(membership, permission, outcome) ==
    IF outcome # "ok" THEN "False"
    ELSE IF membership = NoRow THEN "False"
    ELSE IF "*" \in roles[memberships[membership].role].permissions THEN "True"
    ELSE IF permission \in roles[memberships[membership].role].permissions
    THEN "True" ELSE "False"

\* A plausible slip: an unrecognized name gets every permission.
role_data_unknown_is_wildcard(role_name) ==
    IF role_name \in DOMAIN SYSTEM_ROLES THEN SYSTEM_ROLES[role_name]
    ELSE {"*"}

\* get_or_create_role, lines 405-408: SYSTEM_ROLES.get(role_name, {...,
\* "permissions": []})["permissions"]
role_data(role_name) ==
    IF role_name \in DOMAIN SYSTEM_ROLES THEN SYSTEM_ROLES[role_name]
    ELSE {}

\* get_or_create_role: the Role table after the call; the role it returns is
\* the row of that name.
get_or_create_role(role_name) ==
    IF roles[role_name].exists THEN roles
    ELSE [roles EXCEPT ![role_name] =
             [exists |-> TRUE, permissions |-> role_data(role_name)]]

\* A has_permission call, whose query the database answers or fails
HasPermission(user_id, team_id, permission) ==
    /\ \E membership \in First(user_id, team_id), outcome \in {"ok", "db_error"} :
          perm_result' =
             [user |-> user_id, team |-> team_id, permission |-> permission,
              lookup |-> outcome,
              value |-> has_permission(membership, permission, outcome)]
    /\ UNCHANGED <<roles, teams, memberships>>
    /\ UNCHANGED notTeam

\* A get_or_create_role call; a failing query or commit raises and leaves the
\* table as it was.
GetOrCreateRole(role_name) ==
    /\ \E outcome \in {"ok", "db_error"} :
          roles' = IF outcome = "ok" THEN get_or_create_role(role_name) ELSE roles
    /\ UNCHANGED <<teams, memberships, perm_result>>
    /\ UNCHANGED notTeam

\* create_team: the team is committed, then the owner role is looked up or
\* created, then the owner's membership is committed; an exception at any of
\* the three leaves what was committed before it.
CreateTeam(team_id, owner) ==
    /\ team_id \notin teams
    /\ \E outcome \in {"ok", "team_fail", "role_fail", "membership_fail"} :
          /\ teams' = IF outcome = "team_fail" THEN teams ELSE teams \cup {team_id}
          /\ roles' = IF outcome \in {"team_fail", "role_fail"} THEN roles
                      ELSE get_or_create_role("owner")
          /\ memberships' =
                IF outcome = "ok"
                THEN Append(memberships,
                            [team |-> team_id, user |-> owner, role |-> "owner",
                             is_active |-> TRUE])
                ELSE memberships
    /\ UNCHANGED perm_result
    /\ UNCHANGED notTeam

\* update_member_role: denied without team:manage_members, ValueError
\* without an active membership of the user; the new role is looked up or
\* created (and committed) before the membership is changed and committed.
UpdateMemberRole(team_id, user_id, new_role_name, updated_by) ==
    /\ \E by \in First(updated_by.id, team_id), membership \in First(user_id, team_id),
          checked \in {"ok", "db_error"},
          outcome \in {"ok", "role_fail", "commit_fail"} :
          IF \/ has_permission(by, "team:manage_members", checked) = "False"
             \/ membership = NoRow
             \/ outcome = "role_fail"
          THEN UNCHANGED <<roles, memberships>>
          ELSE /\ roles' = get_or_create_role(new_role_name)
               /\ memberships' =
                     IF outcome = "ok"
                     THEN [memberships EXCEPT ![membership].role = new_role_name]
                     ELSE memberships
    /\ UNCHANGED <<teams, perm_result>>
    /\ UNCHANGED notTeam

\* remove_member: denied without team:manage_members, ValueError without an
\* active membership of the user; the membership is deactivated.
RemoveMember(team_id, user_id, removed_by) ==
    /\ \E by \in First(removed_by.id, team_id), membership \in First(user_id, team_id),
          checked \in {"ok", "db_error"}, outcome \in {"ok", "commit_fail"} :
          IF \/ has_permission(by, "team:manage_members", checked) = "False"
             \/ membership = NoRow
             \/ outcome = "commit_fail"
          THEN UNCHANGED memberships
          ELSE memberships' = [memberships EXCEPT ![membership].is_active = FALSE]
    /\ UNCHANGED <<roles, teams, perm_result>>
    /\ UNCHANGED notTeam

-----------------------------------------------------------------------------
(* Team invitations (apps/api/team_service.py).  The token and the id of an  *)
(* invitation are its position in the table.                                 *)

\* At most MaxInvitations invitations are sent.
MaxInvitations == 1

\* User.email of the users
EmailOf == [user \in Users |-> IF user = "u1" THEN "u1@x" ELSE "u2@x"]

\* The addresses invitations are sent to: of the users, and of nobody
Emails == {EmailOf[user] : user \in Users} \cup {"nobody@x"}

NoUser == "none"

\* db.query(User).filter(User.email == invited_email).first()
UserByEmail(email) ==
    IF \E user \in Users : EmailOf[user] = email
    THEN CHOOSE user \in Users : EmailOf[user] = email
    ELSE NoUser

\* The role names of the invitations and role updates
InviteRoles == {"owner", "admin", "viewer"}

\* An accept_invitation request that is not inside the call
IdleAccept == [pc |-> "idle", invitation |-> 0, user |-> NoUser]

\* invite_user_to_team: ValueError for an unknown team, without team:invite,
\* for an address whose user has a membership row in the team (active or not)
\* and for an address with a pending invitation; then the role is looked up or
\* created (and committed) and the invitation is committed.  A failing email
\* is logged and changes nothing.
InviteUserToTeam(team_id, invited_email, role_name, invited_by) ==
    /\ Len(invitations) < MaxInvitations
    /\ \E by \in First(invited_by.id, team_id), checked \in {"ok", "db_error"},
          outcome \in {"ok", "role_fail", "commit_fail"} :
          IF \/ team_id \notin teams
             \/ has_permission(by, "team:invite", checked) = "False"
             \/ \E i \in 1..Len(memberships) :
                   /\ memberships[i].team = team_id
                   /\ memberships[i].user = UserByEmail(invited_email)
             \/ \E i \in 1..Len(invitations) :
                   /\ invitations[i].team = team_id
                   /\ invitations[i].invited_email = invited_email
                   /\ invitations[i].status = "pending"
             \/ outcome = "role_fail"
          THEN UNCHANGED <<roles, invitations>>
          ELSE /\ roles' = get_or_create_role(role_name)
               /\ invitations' =
                     IF outcome = "ok"
                     THEN Append(invitations,
                                 [team |-> team_id, invited_email |-> invited_email,
                                  invited_user_id |-> UserByEmail(invited_email),
                                  role |-> role_name, invited_by |-> invited_by.id,
                                  status |-> "pending", expired |-> FALSE])
                     ELSE invitations
    /\ UNCHANGED <<teams, memberships, perm_result, accepting>>
    /\ UNCHANGED notInvite

\* The clock passes expires_at of an invitation (7 days after it was sent).
ExpireInvitation(token) ==
    /\ token \in 1..Len(invitations)
    /\ ~invitations[token].expired
    /\ invitations' = [invitations EXCEPT ![token].expired = TRUE]
    /\ UNCHANGED <<roles, teams, memberships, perm_result, accepting>>
    /\ UNCHANGED notInvite

\* accept_invitation, lines 205-221: the invitation is looked up by its token
\* among the pending, unexpired ones and compared with the user.
AcceptInvitationBegin(r, token, user) ==
    /\ accepting[r].pc = "idle"
    /\ token \in 1..Len(invitations)
    /\ IF \/ invitations[token].status # "pending"
          \/ invitations[token].expired
          \/ /\ invitations[token].invited_user_id # NoUser
             /\ invitations[token].invited_user_id # user.id
          \/ /\ invitations[token].invited_user_id = NoUser
             /\ invitations[token].invited_email # user.email
       THEN UNCHANGED accepting
       ELSE accepting' = [accepting EXCEPT ![r] =
                             [pc |-> "commit", invitation |-> token, user |-> user.id]]
    /\ UNCHANGED <<roles, teams, memberships, perm_result, invitations>>
    /\ UNCHANGED notInvite

\* accept_invitation, lines 223-240: the membership is added, the invitation
\* set to accepted, and both are committed; a failing commit raises.
AcceptInvitationCommit(r) ==
    /\ accepting[r].pc = "commit"
    /\ accepting' = [accepting EXCEPT ![r] = IdleAccept]
    /\ \E committed \in BOOLEAN :
          IF committed
          THEN LET invitation == invitations[accepting[r].invitation] IN
               /\ memberships' =
                     Append(memberships,
                            [team |-> invitation.team, user |-> accepting[r].user,
                             role |-> invitation.role, is_active |-> TRUE])
               /\ invitations' =
                     [invitations EXCEPT
                         ![accepting[r].invitation].status = "accepted",
                         ![accepting[r].invitation].invited_user_id = accepting[r].user]
          ELSE UNCHANGED <<memberships, invitations>>
    /\ UNCHANGED <<roles, teams, perm_result>>
    /\ UNCHANGED notInvite

\* decline_invitation: the pending invitation of that token is set to
\* declined, whoever the user is.
DeclineInvitation(token, user) ==
    /\ token \in 1..Len(invitations)
    /\ \E committed \in BOOLEAN :
          IF invitations[token].status = "pending" /\ committed
          THEN invitations' = [invitations EXCEPT
                                  ![token].status = "declined",
                                  ![token].invited_user_id = user.id]
          ELSE UNCHANGED invitations
    /\ UNCHANGED <<roles, teams, memberships, perm_result, accepting>>
    /\ UNCHANGED notInvite

\* cancel_invitation: the invitation of that id, whatever its status, is set
\* to cancelled by a user with team:manage_members.
CancelInvitation(invitation_id, cancelled_by) ==
    /\ invitation_id \in 1..Len(invitations)
    /\ \E by \in First(cancelled_by.id, invitations[invitation_id].team),
          checked \in {"ok", "db_error"}, committed \in BOOLEAN :
          IF \/ has_permission(by, "team:manage_members", checked) = "False"
             \/ ~committed
          THEN UNCHANGED invitations
          ELSE invitations' = [invitations EXCEPT ![invitation_id].status = "cancelled"]
    /\ UNCHANGED <<roles, teams, memberships, perm_result, accepting>>
    /\ UNCHANGED notInvite

-----------------------------------------------------------------------------
(* How a task comes to the worker.  A run whose position is "new" has no    *)
(* job in the queue.                                                        *)

\* tasks.py 94-123: create_agent_task commits the Task row with status
\* pending and queues process_agent_task for it; a failing commit raises and
\* leaves nothing.
CreateAgentTask(r) ==
    /\ pc[r] = "new"
    /\ ~task_exists
    /\ \E committed \in BOOLEAN :
          IF committed
          THEN /\ task_exists' = TRUE
               /\ task_status' = [task_status EXCEPT ![r] = "pending"]
               /\ pc' = [pc EXCEPT ![r] = "queued"]
          ELSE UNCHANGED <<task_exists, task_status, pc>>
    /\ UNCHANGED <<default_system, agent_exists, task_result, result, calls,
                   writes, worker_return, enhanced_env, simple_env, provider>>
    /\ UNCHANGED notWorker

\* main.py 394-410: POST /tasks answers 404 for an agent that is not the
\* user's and otherwise commits the Task row, whose status defaults to
\* pending; it queues nothing.
CreateTask(r) ==
    /\ pc[r] = "new"
    /\ ~task_exists
    /\ IF agent_exists
       THEN /\ task_exists' = TRUE
            /\ task_status' = [task_status EXCEPT ![r] = "pending"]
       ELSE UNCHANGED <<task_exists, task_status>>
    /\ UNCHANGED <<pc, default_system, agent_exists, task_result, result,
                   calls, writes, worker_return, enhanced_env, simple_env,
                   provider>>
    /\ UNCHANGED notWorker

-----------------------------------------------------------------------------
(* The agent configuration of a worker process (apps/agent/agent_config.py) *)
(* and the parameters the Simple pipeline sends to the provider.  A         *)
(* temperature is written in tenths: 7 is 0.7 and 20 is 2.0.  A dict is the *)
(* function of its keys; a function that returns a module-level dict        *)
(* returns that dict itself, not a copy, and is modelled by the dict's key. *)

\* float(os.getenv(...)) of a temperature setting
Temperatures == {0, 7, 25}

\* int(os.getenv(...)) of a max_tokens setting
MaxTokens == {1000, 5000}

\* Agent.prompt of the agents of the tasks
Prompts == {"prompt A", "prompt B"}

\* get_agent_settings_from_db: the agent row is found, is not found, or the
\* import or the query raises
LookupOutcomes == {"found", "missing", "error"}

\* How many provider requests a behaviour sends
MaxRequests == 1

NoResult ==
    [called |-> FALSE, env |-> "ok", provider |-> "ok", agent |-> None,
     value |-> None]

\* dict.update(other)
update(d, other) ==
    [k \in DOMAIN d \cup DOMAIN other |->
        IF k \in DOMAIN other THEN other[k] ELSE d[k]]

\* a or b, for numbers
Or(a, b) == IF a = 0 THEN b ELSE a

\* libs/shared/agent_config.py: validate_agent_config
validate_agent_config(config) ==
    /\ {"model", "temperature", "max_tokens"} \subseteq DOMAIN config
    /\ 0 <= config["temperature"] /\ config["temperature"] <= 20
    /\ 1 <= config["max_tokens"] /\ config["max_tokens"] <= 4000

\* get_agent_config(system_type): the key of the dict it returns
get_agent_config(system_type) ==
    IF system_type = "simple" THEN "simple_agent" ELSE "enhanced_agent"

\* get_agent_settings_from_db: a new dict for an agent that is found,
\* get_agent_config() of the default system otherwise.
get_agent_settings_from_db(lookup, prompt) ==
    IF lookup = "found"
    THEN [model |-> "DEFAULT_MODEL", temperature |-> 7, max_tokens |-> 1000,
          prompt |-> prompt]
    ELSE AGENT_SYSTEM_CONFIG[get_agent_config(AGENT_SYSTEM_CONFIG["default_system"])]

\* create_agent_config_from_env_and_db(agent.id, system_type): base_config is
\* the dict of AGENT_SYSTEM_CONFIG, so base_config.update writes into it.  The
\* value is AGENT_SYSTEM_CONFIG after the call; the dict returned is the one
\* at get_agent_config(system_type).
create_agent_config_from_env_and_db(system_type, lookup, prompt) ==
    [AGENT_SYSTEM_CONFIG EXCEPT ![get_agent_config(system_type)] =
        update(@, get_agent_settings_from_db(lookup, prompt))]

\* SimpleAgent.__init__ and the create_chat_completion call of
\* SimpleAgent.process_task: the parameters of the provider request.
chat_completion_request(agent_config) ==
    [model |-> agent_config["model"],
     temperature |-> Or(agent_config["temperature"], openai_client["temperature"]),
     max_tokens |-> Or(agent_config["max_tokens"], openai_client["max_tokens"])]

\* process_task_simple(task, agent) for an agent with this prompt
ProcessTaskSimple(se, lookup, prompt, p) ==
    /\ Len(provider_requests) < MaxRequests
    /\ IF se = "ConfigException"
       THEN UNCHANGED <<AGENT_SYSTEM_CONFIG, provider_requests>>
       ELSE LET built == create_agent_config_from_env_and_db("simple", lookup, prompt)
                agent_config == update(built["simple_agent"], [prompt |-> prompt])
            IN /\ AGENT_SYSTEM_CONFIG' = [built EXCEPT !["simple_agent"] = agent_config]
               /\ provider_requests' =
                     Append(provider_requests, chat_completion_request(agent_config))
    /\ simple_result' =
          [called |-> TRUE, env |-> se, provider |-> p,
           agent |-> IF se = "ConfigException" THEN None
                     ELSE SimpleAgent_process_task(p),
           value |-> process_task_simple(se, p)]
    /\ UNCHANGED openai_client
    /\ UNCHANGED notConfig

\* tasks.py 34-41: the configuration _process_with_enhanced_agent builds
\* before it creates the agent
ProcessWithEnhancedAgentConfig(lookup, prompt) ==
    /\ LET built == create_agent_config_from_env_and_db("enhanced", lookup, prompt)
       IN AGENT_SYSTEM_CONFIG' =
             [built EXCEPT !["enhanced_agent"] =
                 update(@, [prompt |-> prompt, type |-> "basic"])]
    /\ UNCHANGED <<openai_client, provider_requests, simple_result>>
    /\ UNCHANGED notConfig

-----------------------------------------------------------------------------
(* Stripe webhooks (apps/api/stripe_service.py: handle_webhook).  Stripe     *)
(* sends an event again under the same id with the same content, and two    *)
(* deliveries may be served at the same time.                               *)

EventIds == {"evt_created", "evt_paid", "evt_deleted"}

\* event_data.get('type') of each event
EventType(event_id) ==
    CASE event_id = "evt_created" -> "customer.subscription.created"
      [] event_id = "evt_paid" -> "invoice.payment_succeeded"
      [] event_id = "evt_deleted" -> "customer.subscription.deleted"

\* The subscription every event is about
SubscriptionIds == {"sub_1"}

EventSubscription(event_id) == "sub_1"

\* The handle_webhook calls in progress
Deliveries == {1, 2}

NoEvent == "none"

IdleDelivery ==
    [pc |-> "idle", event |-> NoEvent, lookup |-> "none", returned |-> "none"]

NoWebhookEvent == [recorded |-> FALSE, processed |-> FALSE]

NoSubscription == "none"

\* A plausible slip: the event is stored without looking for its row first.
WebhookBegin_no_existing_check(d, event_id) ==
    /\ delivery[d].pc = "idle"
    /\ \E lookup \in {"ok", "db_error"} :
          delivery' = [delivery EXCEPT ![d] =
              [event |-> event_id, lookup |-> lookup,
               pc |-> IF lookup = "ok" THEN "store" ELSE "idle",
               returned |-> IF lookup = "db_error" THEN "False" ELSE "none"]]
    /\ UNCHANGED <<webhook_events, subscriptions, payments, handler_runs>>
    /\ UNCHANGED notStripe

\* Lines 160-171: the event is looked up by its id; a recorded event returns
\* True at once, a raising query returns False.
WebhookBegin(d, event_id) ==
    /\ delivery[d].pc = "idle"
    /\ \E lookup \in {"ok", "db_error"} :
          delivery' = [delivery EXCEPT ![d] =
              [event |-> event_id, lookup |-> lookup,
               pc |-> IF lookup = "ok" /\ ~webhook_events[event_id].recorded
                      THEN "store" ELSE "idle",
               returned |-> IF lookup = "db_error" THEN "False"
                            ELSE IF webhook_events[event_id].recorded THEN "True"
                            ELSE "none"]]
    /\ UNCHANGED <<webhook_events, subscriptions, payments, handler_runs>>
    /\ UNCHANGED notStripe

\* Lines 173-181: the WebhookEvent row is added and committed; the commit
\* raises when the database fails or when a row of this stripe_event_id
\* exists (models.py 131: unique).
WebhookStore(d) ==
    /\ delivery[d].pc = "store"
    /\ \E committed \in BOOLEAN :
          IF committed /\ ~webhook_events[delivery[d].event].recorded
          THEN /\ webhook_events' = [webhook_events EXCEPT ![delivery[d].event] =
                                        [recorded |-> TRUE, processed |-> FALSE]]
               /\ delivery' = [delivery EXCEPT ![d].pc = "handle"]
          ELSE /\ delivery' = [delivery EXCEPT ![d].pc = "idle",
                                               ![d].returned = "False"]
               /\ UNCHANGED webhook_events
    /\ UNCHANGED <<subscriptions, payments, handler_runs>>
    /\ UNCHANGED notStripe

\* _handle_subscription_created: a row for the subscription of a known
\* customer
_handle_subscription_created(event_id, customer_found) ==
    /\ subscriptions' =
          IF customer_found
          THEN [subscriptions EXCEPT ![EventSubscription(event_id)] = "active"]
          ELSE subscriptions
    /\ UNCHANGED payments

\* _handle_subscription_deleted
_handle_subscription_deleted(event_id) ==
    /\ subscriptions' =
          IF subscriptions[EventSubscription(event_id)] # NoSubscription
          THEN [subscriptions EXCEPT ![EventSubscription(event_id)] = "canceled"]
          ELSE subscriptions
    /\ UNCHANGED payments

\* _handle_payment_succeeded
_handle_payment_succeeded(event_id) ==
    /\ payments' =
          IF subscriptions[EventSubscription(event_id)] # NoSubscription
          THEN Append(payments, [subscription |-> EventSubscription(event_id),
                                 status |-> "succeeded", invoice |-> event_id])
          ELSE payments
    /\ UNCHANGED subscriptions

\* Lines 183-193: the handler of the event type runs; it commits its rows at
\* its end, or raises and leaves none.
WebhookHandle(d) ==
    /\ delivery[d].pc = "handle"
    /\ handler_runs' = [handler_runs EXCEPT ![delivery[d].event] = @ + 1]
    /\ \E raised \in BOOLEAN, customer_found \in BOOLEAN :
          IF raised
          THEN /\ delivery' = [delivery EXCEPT ![d].pc = "idle",
                                               ![d].returned = "False"]
               /\ UNCHANGED <<subscriptions, payments>>
          ELSE /\ delivery' = [delivery EXCEPT ![d].pc = "mark"]
               /\ CASE EventType(delivery[d].event) = "customer.subscription.created" ->
                          _handle_subscription_created(delivery[d].event, customer_found)
                    [] EventType(delivery[d].event) = "customer.subscription.deleted" ->
                          _handle_subscription_deleted(delivery[d].event)
                    [] EventType(delivery[d].event) = "invoice.payment_succeeded" ->
                          _handle_payment_succeeded(delivery[d].event)
    /\ UNCHANGED webhook_events
    /\ UNCHANGED notStripe

\* Lines 195-201: the event is marked processed and True is returned; a
\* failing commit returns False.
WebhookMark(d) ==
    /\ delivery[d].pc = "mark"
    /\ \E committed \in BOOLEAN :
          IF committed
          THEN /\ webhook_events' = [webhook_events EXCEPT
                                        ![delivery[d].event].processed = TRUE]
               /\ delivery' = [delivery EXCEPT ![d].pc = "idle",
                                               ![d].returned = "True"]
          ELSE /\ delivery' = [delivery EXCEPT ![d].pc = "idle",
                                               ![d].returned = "False"]
               /\ UNCHANGED webhook_events
    /\ UNCHANGED <<subscriptions, payments, handler_runs>>
    /\ UNCHANGED notStripe

-----------------------------------------------------------------------------
(* The workflow graph (apps/agent/langgraph_workflows.py).  A run of         *)
(* execute_workflow visits one node at a time; a conditional edge is         *)
(* evaluated on the state the node returned.  The results and errors lists   *)
(* are kept as the sequences of the kinds of their entries.                  *)

\* How many node visits of one run are followed
MaxVisits == 12

\* total_steps=5 of the initial state and of _analyze_node
DefaultTotalSteps == 5

\* What self.llm(prompt) gives the validate node: a text, or an exception
ValidationOutcomes == {"VALID", "INVALID", "NEEDS_IMPROVEMENT", "raise"}

\* What self.llm(prompt) gives the error handler: a text, or an exception
RecoveryOutcomes == {"RETRY", "SKIP", "ABORT", "MODIFY", "raise"}

NoState ==
    [current_step |-> 0, total_steps |-> 0, results |-> <<>>, errors |-> <<>>,
     workflow_complete |-> FALSE]

\* max(0, n)
Max0(n) == IF n < 0 THEN 0 ELSE n

\* _should_validate; _needs_user_input returns False
_should_validate(s) ==
    IF s.errors # <<>> THEN "error_handler"
    ELSE IF s.current_step >= s.total_steps THEN "complete"
    ELSE "validate"

\* _after_validation
_after_validation(s) ==
    IF s.errors # <<>> THEN "error_handler"
    ELSE IF s.current_step >= s.total_steps THEN "complete"
    ELSE "execute"

\* _after_error: the state has no key recovery_option, so state.get gives ""
\* and both tests fail: retry, whose edge leads to execute.
_after_error(s) ==
    IF "recovery_option" \in DOMAIN s /\ s["recovery_option"] = "ABORT" THEN "complete"
    ELSE "execute"

\* The graph moves to the next node
Visit(next) ==
    /\ Len(visited) < MaxVisits
    /\ visited' = Append(visited, node)
    /\ node' = next

\* execute_workflow: the initial state, the entry point analyze
ExecuteWorkflow ==
    /\ node = "idle"
    /\ state' = [current_step |-> 0, total_steps |-> DefaultTotalSteps,
                 results |-> <<>>, errors |-> <<>>, workflow_complete |-> FALSE]
    /\ node' = "analyze"
    /\ UNCHANGED <<recovery_option, visited>>
    /\ UNCHANGED notWorkflow

\* _analyze_node, then the edge to execute
AnalyzeNode ==
    /\ node = "analyze"
    /\ \E raised \in BOOLEAN :
          state' = IF raised
                   THEN [state EXCEPT !.errors = Append(@, "Analysis error")]
                   ELSE [state EXCEPT !.results = Append(@, "analysis"),
                                      !.current_step = 0,
                                      !.total_steps = DefaultTotalSteps,
                                      !.workflow_complete = FALSE]
    /\ Visit("execute")
    /\ UNCHANGED recovery_option
    /\ UNCHANGED notWorkflow

\* _execute_node, then _should_validate
ExecuteNode ==
    /\ node = "execute"
    /\ state' = [state EXCEPT !.results = Append(@, "step"),
                              !.current_step = @ + 1]
    /\ Visit(_should_validate(state'))
    /\ UNCHANGED recovery_option
    /\ UNCHANGED notWorkflow

\* _validate_node, then _after_validation
ValidateNode ==
    /\ node = "validate"
    /\ \E validation \in ValidationOutcomes :
          state' = CASE state.results = <<>> ->
                           [state EXCEPT !.errors = Append(@, "No result to validate")]
                     [] validation = "raise" ->
                           [state EXCEPT !.errors = Append(@, "Validation error")]
                     [] validation = "INVALID" ->
                           [state EXCEPT !.errors = Append(@, "Validation failed")]
                     [] OTHER -> state
    /\ Visit(_after_validation(state'))
    /\ UNCHANGED recovery_option
    /\ UNCHANGED notWorkflow

\* _error_handler_node, then _after_error.  The option the LLM returns is a
\* local variable of the node.
ErrorHandlerNode ==
    /\ node = "error_handler"
    /\ \E option \in RecoveryOutcomes :
          /\ recovery_option' = IF state.errors = <<>> THEN "none" ELSE option
          /\ state' = CASE state.errors = <<>> -> state
                        [] option = "raise" -> [state EXCEPT !.workflow_complete = TRUE]
                        [] option = "RETRY" ->
                              [state EXCEPT !.current_step = Max0(@ - 1)]
                        [] option = "ABORT" -> [state EXCEPT !.workflow_complete = TRUE]
                        [] OTHER -> state
    /\ Visit(_after_error(state'))
    /\ UNCHANGED notWorkflow

\* _complete_node, then the edge to END
CompleteNode ==
    /\ node = "complete"
    /\ \E raised \in BOOLEAN :
          state' = IF raised
                   THEN [state EXCEPT !.workflow_complete = TRUE,
                                      !.errors = Append(@, "Completion error")]
                   ELSE [state EXCEPT !.workflow_complete = TRUE,
                                      !.results = Append(@, "summary")]
    /\ Visit("END")
    /\ UNCHANGED recovery_option
    /\ UNCHANGED notWorkflow

-----------------------------------------------------------------------------

InitWorker ==
    /\ pc = [r \in Runs |-> "queued"]
    /\ default_system \in [Runs -> {"simple", "enhanced"}]
    /\ task_exists \in BOOLEAN
    /\ agent_exists \in BOOLEAN
    /\ task_status = [r \in Runs |-> IF task_exists THEN "pending" ELSE "absent"]
    /\ task_result = [r \in Runs |-> None]
    /\ result = [r \in Runs |-> None]
    /\ calls = [r \in Runs |-> <<>>]
    /\ writes = [r \in Runs |-> <<>>]
    /\ worker_return = [r \in Runs |-> "none"]
    /\ enhanced_env \in EnhancedEnvs
    /\ simple_env \in SimpleEnvs
    /\ provider \in ProviderOutcomes

InitUpload ==
    /\ upload_session = NoSession
    /\ bucket = [n \in ChunkNumbers |-> NoBlob]
    /\ final_objects = <<>>
    /\ file_records = <<>>
    /\ req = [r \in Requests |-> IdleRequest]
    /\ reply = [r \in Requests |-> Reply("none", NoChunk)]
    /\ finalize_count = 0

\* The worker with one queued task, which no action of the upload
\* specification touches.
WorkerQueued ==
    /\ pc = [r \in Runs |-> "queued"]
    /\ default_system = [r \in Runs |-> "enhanced"]
    /\ task_exists = TRUE
    /\ agent_exists = TRUE
    /\ task_status = [r \in Runs |-> "pending"]
    /\ task_result = [r \in Runs |-> None]
    /\ result = [r \in Runs |-> None]
    /\ calls = [r \in Runs |-> <<>>]
    /\ writes = [r \in Runs |-> <<>>]
    /\ worker_return = [r \in Runs |-> "none"]
    /\ enhanced_env = "ok"
    /\ simple_env = "ok"
    /\ provider = "ok"

NextWorker ==
    \E r \in Runs :
        \/ LoadTask(r)
        \/ MarkProcessing(r)
        \/ ProcessTask(r)
        \/ ProcessWithEnhancedAgent(r)
        \/ ProcessWithSimpleAgent(r)
        \/ CompleteTask(r)
        \/ HandleException(r)

\* A database without teams, roles and memberships
NoTeams ==
    /\ roles = [name \in RoleNames |-> NoRole]
    /\ teams = {}
    /\ memberships = <<>>
    /\ perm_result = NoCheck

\* No invitation was sent and no accept_invitation request is under way.
NoInvitations ==
    /\ invitations = <<>>
    /\ accepting = [r \in Requests |-> IdleAccept]

\* The module-level dict as the environment defines it when agent_config is
\* imported
ImportedConfig(default, st, sm, et, em) ==
    [default_system |-> default,
     simple_agent |-> [model |-> "SIMPLE_AGENT_MODEL", temperature |-> st,
                       max_tokens |-> sm, timeout |-> 30],
     enhanced_agent |-> [model |-> "ENHANCED_AGENT_MODEL", temperature |-> et,
                         max_tokens |-> em, memory_type |-> "buffer",
                         tool_timeout |-> 30]]

\* A worker process whose environment sets nothing
DefaultConfig ==
    /\ AGENT_SYSTEM_CONFIG = ImportedConfig("enhanced", 7, 1000, 7, 1000)
    /\ openai_client = [model |-> "OPENAI_MODEL", temperature |-> 7,
                        max_tokens |-> 2000]
    /\ provider_requests = <<>>
    /\ simple_result = NoResult

\* A worker process that has just imported agent_config
InitConfig ==
    /\ \E default \in {"simple", "enhanced"}, st \in Temperatures,
          sm \in MaxTokens, et \in Temperatures, em \in MaxTokens :
          AGENT_SYSTEM_CONFIG = ImportedConfig(default, st, sm, et, em)
    /\ \E t \in Temperatures, m \in MaxTokens :
          openai_client = [model |-> "OPENAI_MODEL", temperature |-> t,
                           max_tokens |-> m]
    /\ provider_requests = <<>>
    /\ simple_result = NoResult

NoWebhooks ==
    /\ webhook_events = [e \in EventIds |-> NoWebhookEvent]
    /\ subscriptions = [s \in SubscriptionIds |-> NoSubscription]
    /\ payments = <<>>
    /\ delivery = [d \in Deliveries |-> IdleDelivery]
    /\ handler_runs = [e \in EventIds |-> 0]

NoWorkflow ==
    /\ state = NoState
    /\ node = "idle"
    /\ recovery_option = "none"
    /\ visited = <<>>

\* The Role table holds any of the rows that may be there before the first
\* call; there is no team yet.
InitTeam ==
    /\ \E stored \in SUBSET RoleNames :
          roles = [name \in RoleNames |->
                      IF name \in stored
                      THEN [exists |-> TRUE, permissions |-> StoredPermissions(name)]
                      ELSE NoRole]
    /\ teams = {}
    /\ memberships = <<>>
    /\ perm_result = NoCheck

\* The worker runs over a database and a bucket without upload session.
InitWorkerSpec ==
    /\ InitWorker /\ InitUpload /\ NoTeams /\ NoInvitations
    /\ DefaultConfig /\ NoWebhooks /\ NoWorkflow

SpecWorker == InitWorkerSpec /\ [][NextWorker]_vars

\* upload_chunk calls served one after the other
NextUpload ==
    \/ \E file_size \in 1..MaxFileSize, chunk_size \in ChunkSizes :
          CreateUploadSession(file_size, chunk_size)
    \/ \E token \in Tokens, n \in ChunkNumbers, d \in Data :
          UploadChunkBegin(1, token, n, d)
    \/ StoreChunk(1)
    \/ CommitChunk(1)
    \/ FinalizeUpload(1)

InitUploadSpec ==
    /\ WorkerQueued /\ InitUpload /\ NoTeams /\ NoInvitations
    /\ DefaultConfig /\ NoWebhooks /\ NoWorkflow

SpecUpload == InitUploadSpec /\ [][NextUpload]_vars

\* upload_chunk calls served one after the other while the clock may pass
\* expires_at
NextExpiry ==
    \/ \E file_size \in 1..MaxFileSize, chunk_size \in ChunkSizes :
          CreateUploadSession(file_size, chunk_size)
    \/ Expire
    \/ \E token \in Tokens, n \in ChunkNumbers, d \in Data :
          UploadChunkBegin(1, token, n, d)
    \/ StoreChunk(1)
    \/ CommitChunk(1)
    \/ FinalizeUpload(1)

SpecExpiry == InitUploadSpec /\ [][NextExpiry]_vars

\* The concurrent specifications create sessions of one-byte chunks, of fewer
\* chunks than there are chunk numbers, and send one value of chunk data:
\* which bytes a chunk holds plays no part in them.
ConcurrentChunkSizes == {1}

ConcurrentFileSizes == 1..(MaxFileSize - 1)

ConcurrentData == {"a"}

\* upload_chunk calls of concurrent requests, interleaved at the lookup, the
\* bucket write, the commit and the finalization
NextConcurrent ==
    \/ \E file_size \in ConcurrentFileSizes, chunk_size \in ConcurrentChunkSizes :
          CreateUploadSession(file_size, chunk_size)
    \/ \E r \in Requests :
          \/ \E n \in ChunkNumbers, d \in ConcurrentData :
                UploadChunkBegin(r, SessionToken, n, d)
          \/ StoreChunk(r)
          \/ CommitChunk(r)
          \/ FinalizeUpload(r)

SpecConcurrent == InitUploadSpec /\ [][NextConcurrent]_vars

\* Concurrent upload_chunk calls that all carry the same chunk number: a call
\* enters while another is in flight only with that call's chunk number.
NextSameChunk ==
    \/ \E file_size \in ConcurrentFileSizes, chunk_size \in ConcurrentChunkSizes :
          CreateUploadSession(file_size, chunk_size)
    \/ \E r \in Requests :
          \/ \E n \in ChunkNumbers, d \in ConcurrentData :
                /\ \A q \in Requests :
                      req[q].pc # "idle" => req[q].chunk_number = n
                /\ UploadChunkBegin(r, SessionToken, n, d)
          \/ StoreChunk(r)
          \/ CommitChunk(r)
          \/ FinalizeUpload(r)

SpecSameChunk == InitUploadSpec /\ [][NextSameChunk]_vars

\* The calls of TeamService on one database
NextTeam ==
    \/ \E team_id \in Teams, owner \in Users : CreateTeam(team_id, owner)
    \/ \E user_id \in Users, team_id \in TeamIds, permission \in Permissions :
          HasPermission(user_id, team_id, permission)
    \/ \E role_name \in RoleNames : GetOrCreateRole(role_name)
    \/ \E team_id \in TeamIds, user_id \in Users, new_role_name \in RoleNames,
          updated_by \in Users :
          UpdateMemberRole(team_id, user_id, new_role_name, [id |-> updated_by])
    \/ \E team_id \in TeamIds, user_id \in Users, removed_by \in Users :
          RemoveMember(team_id, user_id, [id |-> removed_by])

InitTeamSpec ==
    /\ WorkerQueued /\ InitUpload /\ InitTeam /\ NoInvitations
    /\ DefaultConfig /\ NoWebhooks /\ NoWorkflow

SpecTeam == InitTeamSpec /\ [][NextTeam]_vars

\* The team calls of the users, with the accept_invitation requests
\* interleaved at the lookup and the commit
NextInvite ==
    \/ \E team_id \in Teams, owner \in Users : CreateTeam(team_id, owner)
    \/ \E team_id \in TeamIds, invited_email \in Emails, role_name \in InviteRoles,
          invited_by \in Users :
          InviteUserToTeam(team_id, invited_email, role_name, [id |-> invited_by])
    \/ \E token \in 1..MaxInvitations : ExpireInvitation(token)
    \/ \E r \in Requests, token \in 1..MaxInvitations, user \in Users :
          AcceptInvitationBegin(r, token, [id |-> user, email |-> EmailOf[user]])
    \/ \E r \in Requests : AcceptInvitationCommit(r)
    \/ \E token \in 1..MaxInvitations, user \in Users :
          DeclineInvitation(token, [id |-> user])
    \/ \E invitation_id \in 1..MaxInvitations, cancelled_by \in Users :
          CancelInvitation(invitation_id, [id |-> cancelled_by])
    \/ \E team_id \in TeamIds, user_id \in Users, new_role_name \in InviteRoles,
          updated_by \in Users :
          UpdateMemberRole(team_id, user_id, new_role_name, [id |-> updated_by])
    \/ \E team_id \in TeamIds, user_id \in Users, removed_by \in Users :
          RemoveMember(team_id, user_id, [id |-> removed_by])

\* A database without roles, teams and invitations
InitInviteSpec ==
    /\ WorkerQueued /\ InitUpload /\ NoTeams /\ NoInvitations
    /\ DefaultConfig /\ NoWebhooks /\ NoWorkflow

SpecInvite == InitInviteSpec /\ [][NextInvite]_vars

\* No task yet, and no job in the queue
InitQueue ==
    /\ pc = [r \in Runs |-> "new"]
    /\ default_system \in [Runs -> {"simple", "enhanced"}]
    /\ task_exists = FALSE
    /\ agent_exists \in BOOLEAN
    /\ task_status = [r \in Runs |-> "absent"]
    /\ task_result = [r \in Runs |-> None]
    /\ result = [r \in Runs |-> None]
    /\ calls = [r \in Runs |-> <<>>]
    /\ writes = [r \in Runs |-> <<>>]
    /\ worker_return = [r \in Runs |-> "none"]
    /\ enhanced_env \in EnhancedEnvs
    /\ simple_env \in SimpleEnvs
    /\ provider \in ProviderOutcomes

\* The steps of the worker on the job of run r
WorkerRun(r) ==
    \/ LoadTask(r)
    \/ MarkProcessing(r)
    \/ ProcessTask(r)
    \/ ProcessWithEnhancedAgent(r)
    \/ ProcessWithSimpleAgent(r)
    \/ CompleteTask(r)
    \/ HandleException(r)

\* A task is created in one of the two ways and the worker serves the queue
NextQueue ==
    \E r \in Runs :
        \/ CreateAgentTask(r)
        \/ CreateTask(r)
        \/ WorkerRun(r)

InitQueueSpec ==
    /\ InitQueue /\ InitUpload /\ NoTeams /\ NoInvitations
    /\ DefaultConfig /\ NoWebhooks /\ NoWorkflow

\* A worker is available: a job that is in the queue is taken and every step
\* of its run is taken.
SpecQueue ==
    /\ InitQueueSpec
    /\ [][NextQueue]_vars
    /\ \A r \in Runs : WF_vars(WorkerRun(r))

\* The tasks one worker process handles, one after the other
NextConfig ==
    \/ \E se \in {"ConfigException", "ok"}, lookup \in LookupOutcomes,
          prompt \in Prompts, p \in ProviderOutcomes :
          ProcessTaskSimple(se, lookup, prompt, p)
    \/ \E lookup \in LookupOutcomes, prompt \in Prompts :
          ProcessWithEnhancedAgentConfig(lookup, prompt)

InitConfigSpec ==
    /\ WorkerQueued /\ InitUpload /\ NoTeams /\ NoInvitations
    /\ InitConfig /\ NoWebhooks /\ NoWorkflow

SpecConfig == InitConfigSpec /\ [][NextConfig]_vars

\* The webhook deliveries of Stripe, interleaved at the database calls
NextWebhook ==
    \E d \in Deliveries :
        \/ \E event_id \in EventIds : WebhookBegin(d, event_id)
        \/ WebhookStore(d)
        \/ WebhookHandle(d)
        \/ WebhookMark(d)

InitWebhookSpec ==
    /\ WorkerQueued /\ InitUpload /\ NoTeams /\ NoInvitations
    /\ DefaultConfig /\ NoWebhooks /\ NoWorkflow

SpecWebhook == InitWebhookSpec /\ [][NextWebhook]_vars

\* One run of execute_workflow
NextWorkflow ==
    \/ ExecuteWorkflow
    \/ AnalyzeNode
    \/ ExecuteNode
    \/ ValidateNode
    \/ ErrorHandlerNode
    \/ CompleteNode

InitWorkflowSpec ==
    /\ WorkerQueued /\ InitUpload /\ NoTeams /\ NoInvitations
    /\ DefaultConfig /\ NoWebhooks /\ NoWorkflow

SpecWorkflow == InitWorkflowSpec /\ [][NextWorkflow]_vars

-----------------------------------------------------------------------------
(* Dispatcher and worker claims *)

\* The record and the agent of the run's task exist.
Loaded == task_exists /\ agent_exists

\* The Enhanced pipeline raised or was unavailable.
EnhancedRaised == enhanced_env \in {"ImportError", "Exception"}

\* The Simple pipeline did not obtain an answer from the provider.
SimpleFailed == simple_env # "ok" \/ provider # "ok"

\* process_task has returned to the worker.
Returned(r) == pc[r] \in {"returned", "done", "except"} /\ calls[r] # <<>>

\* C1: process_task never raises: for either value of use_enhanced and for
\* every combination of outcomes of the two pipelines, what the worker
\* receives from it is a string, never an exception and never another value.
C1_ProcessTaskReturnsString ==
    \A r \in Runs :
        /\ result[r].kind \in {"none", "str"}
        /\ Returned(r) => result[r].kind = "str"

\* C1 witness: the Enhanced pipeline raised, the import of the Simple one
\* raised too, and process_task still returned a string.
C1_Witness ==
    \E r \in Runs :
        /\ Returned(r) /\ should_use_enhanced_agent(r)
        /\ enhanced_env = "Exception" /\ simple_env = "ImportException"
        /\ result[r].kind = "str"

\* The pipelines the claim expects process_task to invoke, in order.
ExpectedCalls(r) ==
    IF ~should_use_enhanced_agent(r) THEN <<"simple">>
    ELSE IF EnhancedRaised THEN <<"enhanced", "simple">>
    ELSE <<"enhanced">>

\* C2: with use_enhanced false only the Simple pipeline is invoked, once; with
\* use_enhanced true the Enhanced pipeline is invoked first and the Simple one
\* once afterwards exactly when the Enhanced one raised or was unavailable.
C2_RoutingAndFallback ==
    \A r \in Runs :
        /\ Len(calls[r]) <= Len(ExpectedCalls(r))
        /\ calls[r] = SubSeq(ExpectedCalls(r), 1, Len(calls[r]))
        /\ Returned(r) => calls[r] = ExpectedCalls(r)

\* C2 witness: a run that fell back after an exception of the Enhanced pipeline.
C2_Witness ==
    \E r \in Runs :
        /\ Returned(r) /\ enhanced_env = "Exception"
        /\ calls[r] = <<"enhanced", "simple">>

\* C3: when the Enhanced pipeline is unavailable, a run with use_enhanced true
\* returns what a run with use_enhanced false returns under the same provider
\* behaviour, provider failure included.
C3_FallbackEquivalence ==
    \A r1, r2 \in Runs :
        ( /\ enhanced_env = "ImportError"
          /\ should_use_enhanced_agent(r1) /\ ~should_use_enhanced_agent(r2)
          /\ Returned(r1) /\ Returned(r2) )
        => result[r1] = result[r2]

\* C3 witness: both runs returned, one through the fallback, and the provider
\* failed.
C3_Witness ==
    \E r1, r2 \in Runs :
        /\ enhanced_env = "ImportError" /\ simple_env = "ok" /\ provider = "rate_limit"
        /\ should_use_enhanced_agent(r1) /\ ~should_use_enhanced_agent(r2)
        /\ Returned(r1) /\ Returned(r2)
        /\ calls[r1] = <<"enhanced", "simple">>

\* Every status write the run attempted reached the database.
AllWritesOk(r) == \A i \in 1..Len(writes[r]) : writes[r][i][2] = "ok"

\* C4 (as claimed): when both pipelines failed for a task, the finished task
\* has status failed and a result beginning with "Error processing task: ".
C4_FailedTaskHasStatusFailed ==
    \A r \in Runs :
        ( /\ pc[r] = "done" /\ Loaded /\ AllWritesOk(r)
          /\ should_use_enhanced_agent(r) /\ EnhancedRaised /\ SimpleFailed )
        => /\ task_status[r] = "failed"
           /\ task_result[r].kind = "str"
           /\ StartsWith(task_result[r].text, ErrorPrefix)

\* C5 (as claimed): processing is in the database while process_task runs,
\* and the finished run has written completed or failed.
C5_StatusWrittenAsClaimed ==
    \A r \in Runs :
        Loaded =>
            /\ pc[r] \in {"process_task", "enhanced", "simple", "returned"}
                  => task_status[r] = "processing"
            /\ pc[r] = "done" => task_status[r] \in {"completed", "failed"}

\* The writes of completed or failed that reached the database.
TerminalWrites(r) ==
    {i \in 1..Len(writes[r]) :
        writes[r][i][1] \in {"completed", "failed"} /\ writes[r][i][2] = "ok"}

\* The status the database holds after the writes of the run.
LastWritten(r) ==
    LET ok == {i \in 1..Len(writes[r]) : writes[r][i][2] = "ok"} IN
    IF ok = {} THEN "pending"
    ELSE writes[r][CHOOSE i \in ok : \A j \in ok : j <= i][1]

\* C5 (amended): the update to processing is attempted before process_task is
\* invoked and is in the database while it runs unless that update failed; at
\* most one of completed or failed is written afterwards, exactly one when the
\* database accepted the last write; no write follows a written completed or
\* failed.
C5_StatusTransitions ==
    \A r \in Runs :
        Loaded =>
            /\ task_status[r] = LastWritten(r)
            /\ pc[r] \in {"process_task", "enhanced", "simple", "returned"}
                  => /\ Len(writes[r]) = 1
                     /\ writes[r][1][1] = "processing"
                     /\ writes[r][1][2] = "ok" => task_status[r] = "processing"
            /\ \A i \in 1..Len(writes[r]) :
                  (writes[r][i][1] = "processing") = (i = 1)
            /\ Cardinality(TerminalWrites(r)) <= 1
            /\ \A i \in TerminalWrites(r) : i = Len(writes[r])
            /\ (pc[r] = "done" /\ writes[r][Len(writes[r])][2] = "ok")
                  => task_status[r] \in {"completed", "failed"}
            /\ pc[r] = "done"
                  => (task_status[r] = "completed") = (worker_return[r] = "completed")

\* C5 witness: the commit of the result failed and the except clause wrote
\* failed.
C5_Witness ==
    \E r \in Runs :
        /\ pc[r] = "done" /\ task_status[r] = "failed"
        /\ writes[r] = << <<"processing", "ok">>, <<"completed", "db_error">>,
                          <<"failed", "ok">> >>

-----------------------------------------------------------------------------
(* Upload session claims *)

\* The list has no entry twice.
NoDuplicates(list) ==
    \A i, j \in 1..Len(list) : i # j => list[i] # list[j]

\* C6 (as claimed): uploaded_chunks is a subset of 0..total_chunks-1 and holds
\* no chunk number twice, whatever chunk numbers were sent.
C6_UploadedChunksInRange ==
    /\ Elements(upload_session.uploaded_chunks) \subseteq ChunkRange
    /\ NoDuplicates(upload_session.uploaded_chunks)

\* C7 (as claimed): a chunk number >= total_chunks is rejected: no such chunk
\* is stored in the bucket and none is in uploaded_chunks.
C7_OutOfRangeChunkRejected ==
    upload_session.exists =>
        \A n \in ChunkNumbers :
            n >= upload_session.total_chunks
               => /\ bucket[n] = NoBlob
                  /\ n \notin Elements(upload_session.uploaded_chunks)

\* The session has reached completed or failed.
Terminal == upload_session.status \in {"completed", "failed"}

\* Every chunk number that passed the lookup so far is one of
\* 0..total_chunks-1: none beyond is in flight, in the bucket or recorded.
OnlyChunksInRange ==
    /\ \A r \in Requests :
          req[r].pc # "idle" => req[r].chunk_number \in ChunkRange
    /\ \A n \in ChunkNumbers \ ChunkRange :
          bucket[n] = NoBlob /\ n \notin Elements(upload_session.uploaded_chunks)

C8_Once ==
    /\ finalize_count <= 1
    /\ Len(final_objects) <= 1
    /\ upload_session.status = "completed" => finalize_count = 1 /\ Len(final_objects) = 1
    /\ (upload_session.status = "completed" /\ OnlyChunksInRange)
          => /\ Len(upload_session.uploaded_chunks) = upload_session.total_chunks
             /\ Elements(upload_session.uploaded_chunks) = ChunkRange
    /\ (upload_session.exists /\ Elements(upload_session.uploaded_chunks) = ChunkRange)
          => \/ Terminal
             \/ \E r \in Requests : req[r].pc = "finalize"
    /\ (OnlyChunksInRange /\ \E r \in Requests : req[r].pc = "finalize")
          => \A i \in ChunkRange : bucket[i] # NoBlob

C8_CompletingCall ==
    ( /\ OnlyChunksInRange
      /\ upload_session.status # "completed"
      /\ upload_session'.status = "completed" )
       => \E r \in Requests :
             LET list == upload_session.uploaded_chunks IN
             /\ req[r].pc = "finalize"
             /\ reply'[r].status = "completed"
             /\ Elements(list) = ChunkRange
             /\ list[Len(list)] = req[r].chunk_number
             /\ req[r].chunk_number \notin Elements(SubSeq(list, 1, Len(list) - 1))

C8_AfterTerminal ==
    Terminal
       => /\ UNCHANGED <<upload_session, bucket, final_objects, file_records,
                         finalize_count>>
          /\ \A r \in Requests :
                /\ req'[r].pc = "idle"
                /\ reply'[r] # reply[r] => reply'[r].status = "ValueError"

C9_FinalizeIffAllUploaded ==
    /\ \A r \in Requests :
          /\ req[r].pc = "finalize"
                => Elements(upload_session.uploaded_chunks) = ChunkRange
          /\ (req[r].pc = "idle" /\ reply[r].status = "chunk_uploaded")
                => Elements(upload_session.uploaded_chunks) # ChunkRange
    /\ finalize_count > 0 => ChunkRange \subseteq Elements(upload_session.uploaded_chunks)

C10_NeverStoredTwice ==
    \A r \in Requests :
        req[r].pc \in {"store", "commit"}
           => req[r].chunk_number \notin Elements(upload_session.uploaded_chunks)

\* The step is no call of request r: neither its position nor its reply
\* changes.
Quiet(r) == req'[r] = req[r] /\ reply'[r] = reply[r]

\* Request r was answered already_uploaded for chunk n and nothing else
\* changed.
C10_AlreadyUploaded(r, n) ==
    /\ reply'[r] = Reply("already_uploaded", n)
    /\ req'[r].pc = "idle"
    /\ UNCHANGED <<upload_session, bucket, final_objects, file_records,
                   finalize_count>>

C10_DuplicateCall ==
    \A r \in Requests :
        \/ Quiet(r)
        \/ req[r].pc # "idle"
        \/ upload_session.status \notin {"pending", "uploading"}
        \/ \A n \in Elements(upload_session.uploaded_chunks) :
              \/ C10_AlreadyUploaded(r, n)
              \/ \A d \in Data : ~UploadChunkBegin(r, SessionToken, n, d)

\* C10: an upload_chunk call for a chunk number already in uploaded_chunks of
\* a pending or uploading session answers already_uploaded at once and leaves
\* the recorded list, the status of the session and the stored chunk as they
\* were, whatever data it carries; no call stores a chunk that is already
\* recorded.
C10_IdempotentChunkDelivery ==
    []C10_NeverStoredTwice /\ [][C10_DuplicateCall]_vars

\* C10 witness: a recorded chunk was delivered again and answered
\* already_uploaded while the session is still uploading.
C10_Witness ==
    \E n \in ChunkNumbers :
        /\ reply[1] = Reply("already_uploaded", n)
        /\ upload_session.status = "uploading"
        /\ n \in Elements(upload_session.uploaded_chunks)
        /\ bucket[n] # NoBlob

\* A chunk is being stored or recorded only for a pending or uploading session.
C11_InFlightOnlyWhenOpen ==
    \A r \in Requests :
        /\ req[r].pc \in {"store", "commit"}
              => upload_session.status \in {"pending", "uploading"}
        /\ req[r].pc = "finalize" => upload_session.status = "uploading"

\* Request r was answered ValueError and nothing else changed.
C11_Rejected(r) ==
    /\ reply'[r] = Reply("ValueError", NoChunk)
    /\ req'[r].pc = "idle"
    /\ UNCHANGED <<upload_session, bucket, final_objects, file_records,
                   finalize_count>>

C11_RejectedCall ==
    \A r \in Requests :
        \/ Quiet(r)
        \/ C11_Rejected(r)
        \/ \A token \in Tokens, n \in ChunkNumbers, d \in Data :
              ~( /\ \/ token # SessionToken
                    \/ ~upload_session.exists
                    \/ upload_session.status \notin {"pending", "uploading"}
                 /\ req[r].pc = "idle"
                 /\ UploadChunkBegin(r, token, n, d) )

\* C11: an upload_chunk call with an unknown session token, or for a session
\* that is completed or failed, raises ValueError and changes neither the
\* session record nor the bucket; a chunk is stored or recorded only while the
\* session is pending or uploading.
C11_OnlyOpenSessionsAccept ==
    []C11_InFlightOnlyWhenOpen /\ [][C11_RejectedCall]_vars

\* C11 witness: a call was rejected for a session whose finalization failed.
C11_Witness ==
    /\ upload_session.status = "failed"
    /\ finalize_count = 1
    /\ req[1].pc = "idle"
    /\ reply[1] = Reply("ValueError", NoChunk)

\* C12 (as claimed): an upload_chunk call made after expires_at of the session
\* is rejected with ValueError and neither stores a chunk nor changes the
\* session, although the session is still pending or uploading.
C12_ExpiredSessionRejects ==
    [][ \A r \in Requests, n \in ChunkNumbers, d \in Data :
           ( /\ upload_session.expired
             /\ UploadChunkBegin(r, SessionToken, n, d) )
           => /\ reply'[r] = Reply("ValueError", NoChunk)
              /\ req'[r].pc = "idle" ]_vars

C13_OneObjectNoChunkLeft ==
    upload_session.status = "completed"
       => /\ Len(final_objects) = 1
          /\ Len(final_objects[1]) = upload_session.total_chunks
          /\ \A n \in ChunkNumbers : bucket[n] = NoBlob

C13_ContentInIndexOrder ==
    ( /\ upload_session.status # "completed"
      /\ upload_session'.status = "completed" )
       => /\ final_objects' = <<[i \in 1..upload_session.total_chunks |-> bucket[i - 1]]>>
          /\ \A i \in ChunkRange : bucket[i] \in Data

\* C13 (as claimed): whenever the session is completed, exactly one final
\* object is stored, its content is the data of the chunks 0..total_chunks-1
\* in index order whatever the order of arrival, and no chunk object of the
\* session is left in the bucket.
C13_CompletedObjectIsConcatenation ==
    []C13_OneObjectNoChunkLeft /\ [][C13_ContentInIndexOrder]_vars

\* C14 (as claimed): a session whose finalization failed is failed with every
\* recorded chunk still in the bucket and no file record created for it.  (The
\* claim excludes a stored final object as well; the object that upload_file
\* wrote before failing is left in the bucket too.)
C14_FailedFinalizationExposesNothing ==
    upload_session.status = "failed"
       => /\ \A n \in Elements(upload_session.uploaded_chunks) : bucket[n] # NoBlob
          /\ file_records = <<>>

\* C15 (as claimed): concurrent upload_chunk calls for the same chunk number
\* record the chunk number once and start finalization at most once.
C15_SameChunkFinalizedOnce ==
    /\ NoDuplicates(upload_session.uploaded_chunks)
    /\ finalize_count <= 1

\* The chunk numbers the calls reported as chunk_uploaded
ReportedUploaded ==
    {reply[r].chunk_number : r \in {q \in Requests : reply[q].status = "chunk_uploaded"}}

\* C16 (as claimed): once all concurrent calls have returned, every chunk
\* number reported as chunk_uploaded is in uploaded_chunks, and if the calls
\* reported all of 0..total_chunks-1 the session has been finalized.
C16_NoLostUpdate ==
    (\A r \in Requests : req[r].pc = "idle")
       => /\ ReportedUploaded \subseteq Elements(upload_session.uploaded_chunks)
          /\ (upload_session.exists /\ ChunkRange \subseteq ReportedUploaded)
                => finalize_count >= 1

\* C17: total_chunks of a session is the least n with n * chunk_size >=
\* file_size (3 for a file of 3,000,000 bytes in chunks of 1,048,576), and a
\* session that has just been created has an empty uploaded_chunks.
C17_TotalChunksIsCeiling ==
    /\ upload_session.exists
          => /\ upload_session.total_chunks * upload_session.chunk_size
                   >= upload_session.file_size
             /\ (upload_session.total_chunks - 1) * upload_session.chunk_size
                   < upload_session.file_size
             /\ upload_session.status = "pending"
                   => upload_session.uploaded_chunks = <<>>
    /\ total_chunks(3000000, 1048576) = 3

\* C17 witness: new sessions whose file size is, and is not, a multiple of
\* the chunk size.
C17_Witness ==
    /\ upload_session.status = "pending"
    /\ upload_session.chunk_size = 2
    /\ \/ upload_session.file_size = 3 /\ upload_session.total_chunks = 2
       \/ upload_session.file_size = 2 /\ upload_session.total_chunks = 1

-----------------------------------------------------------------------------
(* Team permission claims *)

\* The permission set of the role of a membership row
RolePermissions(i) == roles[memberships[i].role].permissions

\* A has_permission call has just returned.
Checked == perm_result' # perm_result

C18_Decision ==
    (Checked /\ perm_result'.lookup = "ok")
       => LET rows == ActiveRows(perm_result'.user, perm_result'.team) IN
          /\ rows = {} => perm_result'.value = "False"
          /\ \A i \in rows :
                /\ "*" \in RolePermissions(i) => perm_result'.value = "True"
                /\ "*" \notin RolePermissions(i)
                      => (perm_result'.value = "True"
                             <=> perm_result'.permission \in RolePermissions(i))
                /\ perm_result'.value \in {"True", "False"}

\* C18: a has_permission call whose lookup succeeds returns False when the
\* user has no active membership in the team, True for every permission string
\* when the role of the membership holds "*", and otherwise True exactly when
\* the permission is an element of the role's permission set.
C18_HasPermissionDecision == [][C18_Decision]_vars

\* C18 witness: a viewer was denied agents:create.
C18_Witness ==
    /\ perm_result.lookup = "ok"
    /\ perm_result.permission = "agents:create"
    /\ perm_result.value = "False"
    /\ \E i \in ActiveRows(perm_result.user, perm_result.team) :
          /\ memberships[i].role = "viewer"
          /\ RolePermissions(i) = {"agents:read", "tasks:read", "team:read"}

\* C19: has_permission returns True or False and never raises; when the
\* lookup of the membership fails it returns False.
C19_HasPermissionNeverRaises ==
    /\ perm_result.value \in {"none", "True", "False"}
    /\ perm_result.lookup = "db_error" => perm_result.value = "False"

\* C19 witness: the lookup failed for a user whose role holds "*", and the
\* call returned False.
C19_Witness ==
    /\ perm_result.lookup = "db_error"
    /\ perm_result.value = "False"
    /\ \E i \in ActiveRows(perm_result.user, perm_result.team) :
          "*" \in RolePermissions(i)

\* The permission set the claim gives a role created under that name
C20_CreatedPermissions(name) ==
    IF name \in {"owner", "admin", "member", "viewer"} THEN SYSTEM_ROLES[name]
    ELSE {}

C20_RoleKeptOrCreated ==
    \A name \in RoleNames :
        roles'[name] # roles[name]
           => /\ ~roles[name].exists
              /\ roles'[name] =
                    [exists |-> TRUE, permissions |-> C20_CreatedPermissions(name)]

C20_EmptyRoleDenied ==
    ( /\ Checked
      /\ \E i \in ActiveRows(perm_result'.user, perm_result'.team) :
            RolePermissions(i) = {} )
       => perm_result'.value = "False"

\* C20: a Role row that exists is never changed; a role that is created gets
\* the predefined permission set of owner, admin, member or viewer and the
\* empty set under any other name; and a member whose role has the empty set
\* is denied every permission.
C20_GetOrCreateRole == [][C20_RoleKeptOrCreated /\ C20_EmptyRoleDenied]_vars

\* C20 witness: the role guest was created with no permission, a member holds
\* it and was denied agents:read.
C20_Witness ==
    /\ roles["guest"] = [exists |-> TRUE, permissions |-> {}]
    /\ perm_result.lookup = "ok"
    /\ perm_result.permission = "agents:read"
    /\ perm_result.value = "False"
    /\ \E i \in ActiveRows(perm_result.user, perm_result.team) :
          memberships[i].role = "guest"

-----------------------------------------------------------------------------
(* Invitation claims *)

\* C21 (as claimed): a user has at most one active membership row in a team,
\* whatever the calls and however the accept_invitation requests interleave.
C21_OneActiveMembership ==
    \A user \in Users, team_id \in TeamIds :
        Cardinality(ActiveRows(user, team_id)) <= 1

C27_StatusOnlyFromPending ==
    \A i \in 1..Len(invitations) :
        invitations[i].status # "pending"
           => invitations'[i].status = invitations[i].status

C27_OneMembershipPerAccepted ==
    \A i \in 1..Len(invitations) :
        invitations[i].status = "accepted"
           => Cardinality({j \in 1..Len(memberships) :
                              /\ memberships[j].team = invitations[i].team
                              /\ memberships[j].user = invitations[i].invited_user_id})
                 = 1

\* C27 (as claimed): the status of an invitation that is accepted, declined
\* or cancelled never changes again, and an accepted invitation has created
\* exactly one membership.
C27_InvitationStatusFinal ==
    [][C27_StatusOnlyFromPending]_vars /\ []C27_OneMembershipPerAccepted

\* The user holds an active membership of the team whose role contains "*".
HoldsWildcard(user, team_id) ==
    \E i \in ActiveRows(user, team_id) : "*" \in RolePermissions(i)

C28_NoEscalationByUpdate ==
    \A team_id \in TeamIds, user_id \in Users, updated_by \in Users :
        \/ memberships' = memberships
        \/ HoldsWildcard(updated_by, team_id)
        \/ HoldsWildcard(user_id, team_id)
        \/ \A new_role_name \in RoleNames :
              ~( /\ "*" \in role_data(new_role_name)
                 /\ UpdateMemberRole(team_id, user_id, new_role_name,
                                     [id |-> updated_by]) )

\* C28 (as claimed): a user whose role in the team does not contain "*"
\* never gives a member of the team, themselves included, a role containing
\* "*" with update_member_role.
C28_NoPrivilegeEscalation ==
    [][C28_NoEscalationByUpdate]_vars

-----------------------------------------------------------------------------
(* Agent configuration claims *)

\* C22 (as claimed): every chat-completion request the Simple pipeline sends
\* carries a temperature in [0,2] and a max_tokens in [1,4000].
C22_RequestsInRange ==
    \A i \in 1..Len(provider_requests) :
        validate_agent_config(provider_requests[i])

ProviderErrors == ProviderOutcomes \ {"ok"}

\* C23: for every kind of provider error SimpleAgent.process_task returns the
\* string "OpenAI error: " followed by the message of the error, and
\* process_task_simple returns that string; when the configuration cannot be
\* built process_task_simple still returns a string.
C23_ProviderErrorsBecomeStrings ==
    (simple_result.called /\ simple_result.provider \in ProviderErrors)
       => /\ simple_result.value.kind = "str"
          /\ simple_result.env = "ok"
                => /\ simple_result.agent.kind = "str"
                   /\ StartsWith(simple_result.agent.text, <<"OpenAI error: ">>)
                   /\ Len(simple_result.agent.text) > 1
                   /\ simple_result.value = simple_result.agent

C23_Witness ==
    /\ simple_result.called
    /\ simple_result.env = "ok"
    /\ simple_result.provider = "rate_limit"
    /\ simple_result.value =
          Str(<<"OpenAI error: ", "Rate limit exceeded. Please try again later.">>)

\* C30 (as claimed): no call that builds an agent configuration changes
\* AGENT_SYSTEM_CONFIG.
C30_ConfigUnchanged ==
    [][AGENT_SYSTEM_CONFIG' = AGENT_SYSTEM_CONFIG]_vars

-----------------------------------------------------------------------------
(* Task queue claims *)

\* C24 (as claimed): a task that is pending is eventually completed or failed
\* when a worker is available and every status write succeeds.
C24_PendingTaskIsProcessed ==
    \A r \in Runs :
        (task_status[r] = "pending")
           ~> (task_status[r] \in {"completed", "failed"} \/ ~AllWritesOk(r))

-----------------------------------------------------------------------------
(* Webhook claims *)

C25_HandlerAtMostOnce == \A e \in EventIds : handler_runs[e] <= 1

C25_RedeliveryChangesNothing ==
    \A d \in Deliveries, e \in EventIds :
        \/ delivery' = delivery
        \/ ~webhook_events[e].recorded
        \/ ~WebhookBegin(d, e)
        \/ /\ delivery'[d].pc = "idle"
           /\ delivery'[d].lookup = "ok" => delivery'[d].returned = "True"
           /\ subscriptions' = subscriptions
           /\ payments' = payments
           /\ handler_runs' = handler_runs

C26_TrueOnlyWhenProcessed ==
    [][\A d \in Deliveries :
          (delivery'[d] # delivery[d] /\ delivery'[d].returned = "True")
             => webhook_events'[delivery'[d].event].processed]_vars

-----------------------------------------------------------------------------
(* Workflow claims *)

\* C29 (as claimed): when the error handler chooses ABORT the run goes on to
\* the complete node and runs no further execute step.
C29_AbortStopsExecution ==
    [][(node = "error_handler" /\ visited' # visited /\ recovery_option' = "ABORT")
          => node' = "complete"]_vars

====
